---- MODULE Spec2Model ----
(***************************************************************************)
(* Model of TechCore/Strategies/HW_7/Stoikov_2.py (class Strategy).        *)
(*                                                                         *)
(* Units.  Imbalance I, half-spread S and mid-price M of an observation    *)
(* are kept in hundredths (0.1 is 10, 0.05 is 5); the bucket edges and the *)
(* values looked up in them are doubles, see below.  In the online loop    *)
(* best_bid and best_ask are whole prices, while every quantity the code   *)
(* derives by halving (self.midprice, self.pnl, the volatility price       *)
(* records) is kept doubled, so that the arithmetic stays exact.           *)
(* The arrays of the price-adjustment solver are exact fractions, and the   *)
(* prices of placed orders are kept as the terms the code evaluates.       *)
(***************************************************************************)
EXTENDS Integers, Sequences, FiniteSets, TLC

VARIABLES
    \* ---- Strategy.run: the online loop
    pc,                             \* position in run: tick/drain/quote/scan/done/error
    receive_ts,                     \* receive_ts of the current tick
    updates,                        \* updates of the current tick not yet applied
    best_bid, best_ask,             \* current best positions
    bid_quantity, ask_quantity,     \* sizes at the best positions
    prev_time,                      \* time of the last quoting cycle
    ongoing_orders,                 \* order_id -> Order, as a set of Orders
    all_orders,                     \* every placed order, in placement order
    cancel_calls,                   \* the sim.cancel_order calls, in call order
    trades_list, md_list, updates_list,     \* the lists run returns
    sim_kind,                       \* which update stream the simulator emits
    asset_position, usd_position, total_liq, pnl, midprice,
    volatility_price_records, volatility_time_records,
    order_intensity_time_records, order_intensity_size_records,
    volatility, scaled_order_intensity,
    \* ---- Strategy.__init__: replay and estimate_transition_probabilities
    est_pc,                         \* replay/pairs/normalize/constructed
    est_i,                          \* number of consecutive pairs already counted
    cheat_logs,                     \* the (I, S, M) observations of the replay
    counters,                       \* [R_total, R_success, Q_total, Q_success, T_total, T_success]
    Q, R, T,                        \* the normalized, gap-filled matrices (by row)
    \* ---- the bucket lookup applied to chosen values
    bk_pc, bk_edges, bk_v, bk_w, bk_iv, bk_iw, bk_iv2, bk_X,
    \* ---- the price-adjustment solver of run, on a model of sol_nm states
    sol_pc,                         \* start/loop/solved/error
    sol_nm, sol_Q, sol_R, sol_T,    \* self.nm, self.Q, self.R, self.T
    Qi, G, B, product, micro_price_adjustment,
    sol_i                           \* iterations of the for loop already run

runVars == <<pc, receive_ts, updates, best_bid, best_ask, bid_quantity, ask_quantity,
             prev_time, ongoing_orders,
             all_orders, cancel_calls, trades_list, md_list, updates_list, sim_kind,
             asset_position, usd_position, total_liq, pnl, midprice, volatility_price_records,
             volatility_time_records, order_intensity_time_records,
             order_intensity_size_records, volatility, scaled_order_intensity>>
estVars == <<est_pc, est_i, cheat_logs, counters, Q, R, T>>
bkVars == <<bk_pc, bk_edges, bk_v, bk_w, bk_iv, bk_iw, bk_iv2, bk_X>>
solVars == <<sol_pc, sol_nm, sol_Q, sol_R, sol_T, Qi, G, B, product,
             micro_price_adjustment, sol_i>>
vars == <<runVars, estVars, bkVars, solVars>>

max(a, b) == IF a >= b THEN a ELSE b

RECURSIVE SumSeq(_)
SumSeq(s) == IF s = <<>> THEN 0 ELSE Head(s) + SumSeq(Tail(s))

RECURSIVE SumFun(_, _)
\* sum of f over the finite set D of arguments
SumFun(f, D) ==
    IF D = {} THEN 0
    ELSE LET d == CHOOSE x \in D : TRUE IN f[d] + SumFun(f, D \ {d})

(***************************************************************************)
(* Floating point.  The bucket edges and the values looked up in them are  *)
(* doubles.  A double x is kept as <<h, d>> with x = h / 100 + d * u and    *)
(* u = 2^-60 / 100.  For a double next to a hundredth (a rounded decimal,  *)
(* an edge of np.linspace, a difference of two rounded decimals) h is that *)
(* hundredth and d the exact distance from it, negative below it.  Every    *)
(* other double has the hundredth below it as h and d = Far.  Doubles are   *)
(* compared as these pairs.  The offsets are exact for 0.01 <= |x| < 16384. *)
(***************************************************************************)
\* the offset of a double that lies strictly between two hundredths
Far == 1073741824

RECURSIVE pow2(_)
pow2(e) == IF e = 0 THEN 1 ELSE 2 * pow2(e - 1)

RECURSIVE pow2_mod100(_)
\* 2^s modulo 100
pow2_mod100(s) == IF s = 0 THEN 1 ELSE (2 * pow2_mod100(s - 1)) % 100

RECURSIVE exponent(_)
\* the binary exponent of h / 100 for h > 0: floor(log2(h / 100))
exponent(h) ==
    IF h >= 200 THEN exponent(h \div 2) + 1
    ELSE IF h < 100 THEN exponent(2 * h) - 1
    ELSE 0

\* the powers of 2 for the exponents -7..13 of 0.01 <= |x| < 16384, tabulated
pow2_table == [e \in 1..21 |-> pow2(e)]
pow2_mod100_table == [s \in 39..59 |-> pow2_mod100(s)]

\* Rounding h / 100 (h > 0) to the nearest double, a multiple of 2^(e - 52):
\* r is the remainder of h * 2^(52 - e) by 100, the double lies r / 100 of a
\* step below h / 100 when rounded down and (100 - r) / 100 above otherwise.
round_offset(h) ==
    LET e == exponent(h)
        r == ((h % 100) * pow2_mod100_table[52 - e]) % 100
    IN  pow2_table[e + 8] * (IF r < 50 THEN -r ELSE 100 - r)

\* the double nearest h / 100: a decimal literal, or a correctly rounded quotient
float64(h) ==
    IF h = 0 THEN <<0, 0>>
    ELSE IF h > 0 THEN <<h, round_offset(h)>>
    ELSE <<h, -round_offset(-h)>>

\* x < y on doubles
float_lt(x, y) == x[1] < y[1] \/ (x[1] = y[1] /\ x[2] < y[2])

RECURSIVE pow2_mod200(_)
\* 2^s modulo 200
pow2_mod200(s) == IF s = 0 THEN 1 ELSE (2 * pow2_mod200(s - 1)) % 200

\* the parity of the 53-bit significand of float64(h), h > 0: the quotient of
\* h * 2^(52 - e) by 100, raised by one when the rounding goes up
significand_parity(h) ==
    LET e == exponent(h)
        r == ((h % 200) * pow2_mod200(52 - e)) % 200
    IN  ((r \div 100) + (IF r % 100 < 50 THEN 0 ELSE 1)) % 2

\* h / 100 is a power of two, e its exponent
power_of_two(h, e) == IF e >= 0 THEN h = 100 * pow2(e) ELSE h * pow2(-e) = 100

\* Rounding h / 100 + d * u (h > 0) to the nearest double, ties to the even
\* significand.  The doubles around h / 100 are float64(h) plus whole steps of
\* 2^(e - 52), which is g times u; just below a power of two the step is halved.
round_nearest_even(h, d) ==
    LET e == exponent(h)
        g == IF d < 0 /\ power_of_two(h, e) THEN 50 * pow2_table[e + 8]
                                             ELSE 100 * pow2_table[e + 8]
        first == round_offset(h)
        steps == (d - first) \div g
        rest == (d - first) % g
        up == 2 * rest > g
              \/ (2 * rest = g /\ (significand_parity(h) + steps) % 2 = 1)
    IN  <<h, first + (IF up THEN steps + 1 ELSE steps) * g>>

\* x - y on doubles next to a hundredth: the exact difference, rounded
float_sub(x, y) ==
    LET h == x[1] - y[1]
        d == x[2] - y[2]
    IN  IF h = 0 THEN <<0, d>>
        ELSE IF h > 0 THEN round_nearest_even(h, d)
        ELSE LET z == round_nearest_even(-h, -d) IN <<-z[1], -z[2]>>

\* num / den on whole numbers, den > 0
float_div(num, den) ==
    IF (100 * num) % den = 0 THEN float64((100 * num) \div den)
    ELSE <<(100 * num) \div den, Far>>

(***************************************************************************)
(* State discretizer: the bucket edges and the bisect lookups.             *)
(***************************************************************************)
\* np.linspace computes edge i as i * step + start in doubles; the offsets
\* below are those of the doubles it yields, from the hundredth they stand for
\* (0.30000000000000004 is <<30, 5120>>, while float64(30) is <<30, -1280>>).
K_offsets == <<1280, 0, -1280, 640, -640, -1920, 0,
               -1280, -2560, -3840, -5120, -6400, -1280>>
I_offsets == <<0, 640, 1280, 5120, 2560, 0, 10240, 7680, 5120, 2560>>
S_offsets == <<0, 640, 1280, 5120, 2560, 0, 10240, 7680, 5120, 2560,
               0, 10240, 20480, 5120, 15360, 0, 10240, 20480, 5120, 15360>>

\* self.K = np.linspace(-0.3, 0.3, 13, endpoint=True)
K == [i \in 1..13 |-> <<(i - 7) * 5, K_offsets[i]>>]
\* self.I = np.linspace(0, 1, 10, endpoint=False)
I_edges == [i \in 1..10 |-> <<(i - 1) * 10, I_offsets[i]>>]
\* self.S = np.linspace(0, 2, 20, endpoint=False)
S_edges == [i \in 1..20 |-> <<(i - 1) * 10, S_offsets[i]>>]

n == Len(I_edges)
m == Len(S_edges)
nm == n * m
k == Len(K)

RECURSIVE bisect_loop(_, _, _, _)
\* the loop of bisect.bisect_right(a, x, lo=0, hi=len(a)); a[mid] is a[mid + 1] here
bisect_loop(a, x, lo, hi) ==
    IF lo < hi
    THEN LET mid == (lo + hi) \div 2
         IN  IF float_lt(x, a[mid + 1]) THEN bisect_loop(a, x, lo, mid)
                                        ELSE bisect_loop(a, x, mid + 1, hi)
    ELSE lo

bisect_right(a, x) == bisect_loop(a, x, 0, Len(a))

\* mutant: the lookup without the clamp at 0
bucket_index_noclamp(edges, v) == bisect_right(edges, v) - 1

\* max(bisect.bisect_right(edges, v) - 1, 0)
bucket_index(edges, v) == max(bisect_right(edges, v) - 1, 0)

get_X_i(I, S) ==
    LET I_i == bucket_index(I_edges, I)
        S_i == bucket_index(S_edges, S)
    IN  I_i * Len(S_edges) + S_i

(***************************************************************************)
(* Transition model estimator (Strategy.__init__).                         *)
(* Count matrices are kept sparse: a function whose domain holds the       *)
(* indices with a non-zero count.  X_total[X_i] += 1 raises a whole row,   *)
(* so a total is kept as one count per row.                                *)
(***************************************************************************)
MaxObs == 3

\* the observations of the replay, in hundredths: each stands for the double
\* nearest to it
ObsI == {5, 95}
ObsS == {10, 100}
ObsM == {10000, 10007}
Observations == [I : ObsI, S : ObsS, M : ObsM]

At(f, key) == IF key \in DOMAIN f THEN f[key] ELSE 0
Inc(f, key) == IF key \in DOMAIN f THEN [f EXCEPT ![key] = @ + 1] ELSE f @@ (key :> 1)

\* np.zeros for the six count matrices
ZeroCounters ==
    [R_total |-> <<>>, R_success |-> <<>>, Q_total |-> <<>>,
     Q_success |-> <<>>, T_total |-> <<>>, T_success |-> <<>>]

\* df_cheat_logs after shift(-1) and dropna(): row t pairs observation t with t + 1
NumPairs(logs) == max(Len(logs) - 1, 0)

\* mutant: a price move is not counted in T_success
count_pair_no_T(c, a, b) ==
    LET X_i == get_X_i(float64(a.I), float64(a.S))
        X_i_next == get_X_i(float64(b.I), float64(b.S))
        K_i == bucket_index(K, float_sub(float64(b.M), float64(a.M)))
        c1 == [c EXCEPT !.R_total = Inc(@, X_i),
                        !.R_success = Inc(@, <<X_i, K_i>>),
                        !.Q_total = Inc(@, X_i),
                        !.T_total = Inc(@, X_i)]
    IN  IF b.M = a.M THEN [c1 EXCEPT !.Q_success = Inc(@, <<X_i, X_i_next>>)]
                     ELSE c1

\* mutant: every pair is counted in Q_success, a price move in T_success as well
count_pair_always_Q(c, a, b) ==
    LET X_i == get_X_i(float64(a.I), float64(a.S))
        X_i_next == get_X_i(float64(b.I), float64(b.S))
        K_i == bucket_index(K, float_sub(float64(b.M), float64(a.M)))
        c1 == [c EXCEPT !.R_total = Inc(@, X_i),
                        !.R_success = Inc(@, <<X_i, K_i>>),
                        !.Q_total = Inc(@, X_i),
                        !.T_total = Inc(@, X_i),
                        !.Q_success = Inc(@, <<X_i, X_i_next>>)]
    IN  IF b.M = a.M THEN c1
                     ELSE [c1 EXCEPT !.T_success = Inc(@, <<X_i, X_i_next>>)]

\* one iteration of the loop over consecutive observations (a, b)
count_pair(c, a, b) ==
    LET X_i == get_X_i(float64(a.I), float64(a.S))
        X_i_next == get_X_i(float64(b.I), float64(b.S))
        dM == float_sub(float64(b.M), float64(a.M))
        K_i == bucket_index(K, dM)
        c1 == [c EXCEPT !.R_total = Inc(@, X_i),
                        !.R_success = Inc(@, <<X_i, K_i>>),
                        !.Q_total = Inc(@, X_i),
                        !.T_total = Inc(@, X_i)]
    IN  IF b.M = a.M THEN [c1 EXCEPT !.Q_success = Inc(@, <<X_i, X_i_next>>)]
                     ELSE [c1 EXCEPT !.T_success = Inc(@, <<X_i, X_i_next>>)]

\* A row of a normalized matrix: every entry is num[j] / den; nan marks a row of 0/0.
NaNRow == [nan |-> TRUE, num |-> <<>>, den |-> 0]

SuccessRow(success, X) ==
    LET cols == {p[2] : p \in {q \in DOMAIN success : q[1] = X}}
    IN  [j \in cols |-> success[<<X, j>>]]

\* success / total, element by element
divide(success, total) ==
    [X \in 0..(nm - 1) |->
        IF At(total, X) = 0 THEN NaNRow
        ELSE [nan |-> FALSE, num |-> SuccessRow(success, X), den |-> total[X]]]

ValidRows(rows) == {X \in DOMAIN rows : ~rows[X].nan}
MinOf(s) == CHOOSE x \in s : \A y \in s : x <= y
MaxOf(s) == CHOOSE x \in s : \A y \in s : x >= y

\* DataFrame.bfill(): a missing row takes the next valid row below it
bfill(rows) ==
    LET v == ValidRows(rows)
    IN  [X \in DOMAIN rows |->
            LET later == {Y \in v : Y > X}
            IN  IF X \in v \/ later = {} THEN rows[X] ELSE rows[MinOf(later)]]

\* DataFrame.ffill(): a missing row takes the last valid row above it
ffill(rows) ==
    LET v == ValidRows(rows)
    IN  [X \in DOMAIN rows |->
            LET earlier == {Y \in v : Y < X}
            IN  IF X \in v \/ earlier = {} THEN rows[X] ELSE rows[MaxOf(earlier)]]

normalize(success, total) == ffill(bfill(divide(success, total)))

EstInit ==
    /\ est_pc = "replay"
    /\ est_i = 0
    /\ cheat_logs = <<>>
    /\ counters = ZeroCounters
    /\ Q = <<>>
    /\ R = <<>>
    /\ T = <<>>

\* cheat_activ: one market-data update of the replay is logged
cheat_activ_update ==
    /\ est_pc = "replay"
    /\ Len(cheat_logs) < MaxObs
    /\ \E o \in Observations : cheat_logs' = Append(cheat_logs, o)
    /\ UNCHANGED <<est_pc, est_i, counters, Q, R, T>>

\* cheat_activ: the replay ends; estimate_transition_probabilities starts
cheat_activ_end ==
    /\ est_pc = "replay"
    /\ est_pc' = "pairs"
    /\ UNCHANGED <<est_i, cheat_logs, counters, Q, R, T>>

\* estimate_transition_probabilities: the loop body for the next pair
estimate_count ==
    /\ est_pc = "pairs"
    /\ est_i < NumPairs(cheat_logs)
    /\ counters' = count_pair(counters, cheat_logs[est_i + 1], cheat_logs[est_i + 2])
    /\ est_i' = est_i + 1
    /\ UNCHANGED <<est_pc, cheat_logs, Q, R, T>>

\* estimate_transition_probabilities: the divisions and the gap filling;
\* __init__ returns the Strategy
estimate_normalize ==
    /\ est_pc = "pairs"
    /\ est_i = NumPairs(cheat_logs)
    /\ Q' = normalize(counters.Q_success, counters.Q_total)
    /\ R' = normalize(counters.R_success, counters.R_total)
    /\ T' = normalize(counters.T_success, counters.T_total)
    /\ est_pc' = "constructed"
    /\ UNCHANGED <<est_i, cheat_logs, counters>>

(***************************************************************************)
(* The bucket lookup applied to chosen values.                             *)
(***************************************************************************)
MaxStep == 41

\* values below, between, on and above the edges (edges lie at multiples of
\* 5 hundredths), in hundredths: each stands for the double nearest to it
TestValues == {5 * j + r : j \in (-8)..MaxStep, r \in {0, 3}}

EdgesOf(name) == IF name = "I" THEN I_edges ELSE IF name = "S" THEN S_edges ELSE K

BkInit ==
    /\ bk_pc = "start"
    /\ bk_edges \in {"I", "S", "K"}
    /\ bk_v \in TestValues
    /\ bk_w \in TestValues
    /\ bk_iv = -1
    /\ bk_iw = -1
    /\ bk_iv2 = -1
    /\ bk_X = -1

\* the lookup of v and of w in the chosen edges
bk_lookup ==
    /\ bk_pc = "start"
    /\ bk_iv' = bucket_index(EdgesOf(bk_edges), float64(bk_v))
    /\ bk_iw' = bucket_index(EdgesOf(bk_edges), float64(bk_w))
    /\ bk_pc' = "looked"
    /\ UNCHANGED <<bk_edges, bk_v, bk_w, bk_iv2, bk_X>>

\* the lookup of v once more, and the joint index of (I, S) = (v, w)
bk_again ==
    /\ bk_pc = "looked"
    /\ bk_iv2' = bucket_index(EdgesOf(bk_edges), float64(bk_v))
    /\ bk_X' = get_X_i(float64(bk_v), float64(bk_w))
    /\ bk_pc' = "joint"
    /\ UNCHANGED <<bk_edges, bk_v, bk_w, bk_iv, bk_iw>>

BkIdle ==
    /\ bk_pc = "idle"
    /\ bk_edges = "I"
    /\ bk_v = 0
    /\ bk_w = 0
    /\ bk_iv = -1
    /\ bk_iw = -1
    /\ bk_iv2 = -1
    /\ bk_X = -1

EstIdle ==
    /\ est_pc = "idle"
    /\ est_i = 0
    /\ cheat_logs = <<>>
    /\ counters = ZeroCounters
    /\ Q = <<>>
    /\ R = <<>>
    /\ T = <<>>

(***************************************************************************)
(* The online loop (Strategy.run) against the simulator.                   *)
(***************************************************************************)
MaxTime == 4

\* constructor parameters of the modelled Strategy
delay == 2
time_oi == 2
avg_sum_oi == 1
avg_time_oi == 1
avg_volatility == 1
volatility_record_cooldown == 1
volatility_horizon == 2
order_intensity_min_samples == 1

\* np.inf; -np.inf is -inf
inf == 1000000

\* an estimate (self.volatility, self.scaled_order_intensity) is None or the
\* fraction <<numerator, denominator>>; a zero denominator is the inf or nan
\* that numpy's division yields
None == <<>>

MdUpdate(bid, bid_size, ask, ask_size, trade) ==
    [kind |-> "MdUpdate", bid |-> bid, bid_size |-> bid_size, ask |-> ask,
     ask_size |-> ask_size, trade |-> trade]
OwnTrade(order_id, side, size, price) ==
    [kind |-> "OwnTrade", order_id |-> order_id, side |-> side, size |-> size, price |-> price]
\* an object of any other type
OtherUpdate ==
    [kind |-> "Other", order_id |-> 1, side |-> "ASK", size |-> 1, price |-> 102]

\* the trade carried by an MdUpdate: <<>> is None, <<size>> a trade
QuietMd == MdUpdate(100, 1, 102, 1, <<>>)
MdUpdates == {QuietMd, MdUpdate(100, 1, 102, 1, <<1>>), MdUpdate(101, 3, 104, 7, <<>>)}
OwnTrades == {OwnTrade(1, "BID", 2, 100), OwnTrade(2, "ASK", 1, 102)}

\* the updates a simulator of each kind emits: a market without trades, a
\* market with trades, and a market in which the strategy's orders are filled
UpdatesOf(kind) ==
    IF kind = "quiet" THEN {QuietMd}
    ELSE IF kind = "market" THEN MdUpdates
    ELSE {MdUpdate(100, 1, 102, 1, <<1>>)} \cup OwnTrades \cup {OtherUpdate}

\* the update lists one tick can return
BatchesOf(kind) ==
    {<<>>} \cup {<<u>> : u \in UpdatesOf(kind)}
           \cup {<<u, v>> : u \in UpdatesOf(kind), v \in UpdatesOf(kind)}

\* isinstance(update, MdUpdate), isinstance(update, OwnTrade)
is_MdUpdate(u) == u.kind = "MdUpdate"
\* mutant: a plain else in place of the second isinstance test
is_OwnTrade_else(u) == TRUE
is_OwnTrade(u) == u.kind = "OwnTrade"

\* update_best_positions: the best bid and ask of the update and their sizes,
\* in the order best_bid, best_ask, ask_quantity, bid_quantity
update_best_positions(bid, ask, ask_q, bid_q, u) == <<u.bid, u.ask, u.ask_size, u.bid_size>>

\* the size of every order placed, 0.001, in thousandths
order_size == 1

\* Sim.place_order: a new Order, placed at ts
place_order(order_id, ts, size, side, price) ==
    [order_id |-> order_id, place_ts |-> ts, size |-> size, side |-> side, price |-> price]

\* nan, the sum of -inf and inf
nan == 2 * inf + 1
\* a + b on whole prices and the infinities
float_add(a, b) == IF {a, b} = {-inf, inf} THEN nan ELSE a + b

\* The prices of a quoting cycle are floats built with np.log; they are kept
\* as the terms the code evaluates.  I is bid_quantity / (bid_quantity +
\* ask_quantity); S halves a whole number, which is exact.
\* midprice + micro_price_adjustment[X_i], with midprice doubled
indifference_price(bid, ask, bid_q, ask_q) ==
    [midprice |-> float_add(bid, ask),
     X_i |-> get_X_i(float_div(bid_q, bid_q + ask_q), <<(ask - bid) * 50, 0>>)]
\* risk_koef * volatility + 2 / risk_koef * np.log(1 + risk_koef / scaled_order_intensity)
my_spread(vol, oi) == [volatility |-> vol, scaled_order_intensity |-> oi]
\* mutant: the bid above the indifference price
bid_place_above(ip, spread) ==
    [indifference_price |-> ip, half_spreads |-> 1, my_spread |-> spread]
\* indifference_price + my_spread / 2 and indifference_price - my_spread / 2
ask_place(ip, spread) ==
    [indifference_price |-> ip, half_spreads |-> 1, my_spread |-> spread]
bid_place(ip, spread) ==
    [indifference_price |-> ip, half_spreads |-> -1, my_spread |-> spread]

\* mutant: updates_list = updates
list_extend_replace(list, batch) == batch
\* updates_list += updates
list_extend(list, batch) == list \o batch

\* mutant: the order stays in the map
pop_order_keep(orders, id) == orders
\* if update.order_id in ongoing_orders.keys(): ongoing_orders.pop(update.order_id)
pop_order(orders, id) == [i \in DOMAIN orders \ {id} |-> orders[i]]

LastN(s, c) == IF Len(s) > c THEN SubSeq(s, Len(s) - c + 1, Len(s)) ELSE s

\* np.array(prices).std()**2 / avg_volatility over doubled prices
variance(prices) ==
    LET len == Len(prices)
        sq == [i \in 1..len |-> prices[i] * prices[i]]
    IN  IF len = 0 \/ \E i \in 1..len : prices[i] >= inf
        THEN <<0, 0>>
        ELSE <<len * SumSeq(sq) - SumSeq(prices) * SumSeq(prices),
               4 * len * len * avg_volatility>>

update_volatility(prices, times, ask, ts) ==
    LET prev == IF Len(times) # 0 THEN times[Len(times)] ELSE 0
        rec == ts - prev > volatility_record_cooldown
        t1 == IF rec THEN Append(times, ts) ELSE times
        p1 == IF rec THEN Append(prices, 2 * ask) ELSE prices
        t2 == LastN(t1, volatility_horizon)
        p2 == LastN(p1, volatility_horizon)
    IN  [times |-> t2, prices |-> p2, volatility |-> variance(p2)]

RECURSIVE evict_late(_, _)
\* mutant: the window one time unit longer than time_oi
evict_late(times, sizes) ==
    IF times[Len(times)] - times[1] > time_oi + 1
    THEN evict_late(Tail(times), Tail(sizes))
    ELSE [times |-> times, sizes |-> sizes]

RECURSIVE evict(_, _)
\* the while loop of update_order_intensity
evict(times, sizes) ==
    IF times[Len(times)] - times[1] > time_oi
    THEN evict(Tail(times), Tail(sizes))
    ELSE [times |-> times, sizes |-> sizes]

\* mutant: the threshold test with >= in place of >
update_order_intensity_ge(times, sizes, cur) ==
    IF Len(times) >= order_intensity_min_samples
    THEN LET w == evict(times, sizes)
             total_time == w.times[Len(w.times)] - w.times[1]
             total_sum == SumSeq(w.sizes)
         IN  [times |-> w.times, sizes |-> w.sizes,
              intensity |-> <<total_sum * avg_time_oi, total_time * avg_sum_oi>>]
    ELSE [times |-> times, sizes |-> sizes, intensity |-> cur]

update_order_intensity(times, sizes, cur) ==
    IF Len(times) > order_intensity_min_samples
    THEN LET w == evict(times, sizes)
             total_time == w.times[Len(w.times)] - w.times[1]
             total_sum == SumSeq(w.sizes)
         IN  [times |-> w.times, sizes |-> w.sizes,
              intensity |-> <<total_sum * avg_time_oi, total_time * avg_sum_oi>>]
    ELSE [times |-> times, sizes |-> sizes, intensity |-> cur]

\* mutant: only the volatility is tested
gate_volatility_only(vol, oi) == vol # None
\* mutant: no test at all
gate_always(vol, oi) == TRUE
\* self.volatility is not None and self.scaled_order_intensity is not None
gate(vol, oi) == vol # None /\ oi # None

\* mutant: the cadence test with > in place of >=
cycle_due_gt(ts, prev) == ts - prev > delay
\* receive_ts - prev_time >= self.delay
cycle_due(ts, prev) == ts - prev >= delay

\* mutant: an order is stale one time unit later
stale_late(order, ts) == order.place_ts < ts - delay - 1
\* order.place_ts < receive_ts - self.delay
stale(order, ts) == order.place_ts < ts - delay

\* mutant: the sides exchanged
own_trade_positions_swapped(asset, usd, u) ==
    IF u.side = "ASK" THEN <<asset + u.size, usd - u.size * u.price>>
                      ELSE <<asset - u.size, usd + u.size * u.price>>

\* the asset and usd positions after own trade u
own_trade_positions(asset, usd, u) ==
    IF u.side = "ASK" THEN <<asset - u.size, usd + u.size * u.price>>
                      ELSE <<asset + u.size, usd - u.size * u.price>>

RECURSIVE Ascending(_)
\* the elements of a finite set of numbers, in ascending order
Ascending(s) == IF s = {} THEN <<>> ELSE <<MinOf(s)>> \o Ascending(s \ {MinOf(s)})

RunInit ==
    /\ pc = "tick"
    /\ receive_ts = 0
    /\ updates = <<>>
    /\ best_bid = -inf
    /\ best_ask = inf
    /\ bid_quantity = 1
    /\ ask_quantity = 1
    /\ prev_time = -inf
    /\ ongoing_orders = <<>>
    /\ all_orders = <<>>
    /\ cancel_calls = <<>>
    /\ trades_list = <<>>
    /\ md_list = <<>>
    /\ updates_list = <<>>
    /\ sim_kind \in {"quiet", "market", "fills"}
    /\ asset_position = 0
    /\ usd_position = 0
    /\ total_liq = 0
    /\ pnl = 0
    /\ midprice = 0
    /\ volatility_price_records = <<>>
    /\ volatility_time_records = <<>>
    /\ order_intensity_time_records = <<>>
    /\ order_intensity_size_records = <<>>
    /\ volatility = None
    /\ scaled_order_intensity = None

positionVars == <<asset_position, usd_position, total_liq, pnl>>
volVars == <<volatility_price_records, volatility_time_records, volatility>>
oiVars == <<order_intensity_time_records, order_intensity_size_records,
            scaled_order_intensity>>
bookVars == <<best_bid, best_ask, bid_quantity, ask_quantity, midprice>>
orderVars == <<ongoing_orders, all_orders, cancel_calls>>
listVars == <<trades_list, md_list, updates_list>>

\* sim.tick() returns the next receive_ts and its updates; receive_ts never
\* decreases, and a tick that repeats the receive_ts of the last one brings no
\* update
sim_tick ==
    /\ pc = "tick"
    /\ \E dt \in 0..2, batch \in BatchesOf(sim_kind) :
          /\ receive_ts + dt <= MaxTime
          /\ dt = 0 => (receive_ts > 0 /\ batch = <<>>)
          /\ receive_ts' = receive_ts + dt
          /\ updates' = batch
          /\ updates_list' = list_extend(updates_list, batch)
    /\ pc' = "drain"
    /\ UNCHANGED <<prev_time, sim_kind, positionVars, volVars, oiVars, bookVars, orderVars,
                   trades_list, md_list>>

\* sim.tick() returns updates None: run returns its lists
sim_tick_end ==
    /\ pc = "tick"
    /\ pc' = "done"
    /\ UNCHANGED <<receive_ts, updates, prev_time, sim_kind, positionVars, volVars,
                   oiVars, bookVars, orderVars, listVars>>

\* the for loop, on an MdUpdate (the simulator stamps an update and the trade
\* it carries with the receive_ts of the tick that returns them)
apply_md_update ==
    /\ pc = "drain"
    /\ updates # <<>>
    /\ is_MdUpdate(Head(updates))
    /\ LET u == Head(updates)
           best == update_best_positions(best_bid, best_ask, ask_quantity, bid_quantity, u)
       IN  /\ best_bid' = best[1]
           /\ best_ask' = best[2]
           /\ ask_quantity' = best[3]
           /\ bid_quantity' = best[4]
           /\ midprice' = best[2] + best[1]
           /\ volatility_price_records' = Append(volatility_price_records, best[2] + best[1])
           /\ volatility_time_records' = Append(volatility_time_records, receive_ts)
           /\ IF u.trade # <<>>
              THEN /\ order_intensity_time_records' =
                          Append(order_intensity_time_records, receive_ts)
                   /\ order_intensity_size_records' =
                          Append(order_intensity_size_records, u.trade[1])
              ELSE UNCHANGED <<order_intensity_time_records, order_intensity_size_records>>
    /\ md_list' = Append(md_list, Head(updates))
    /\ updates' = Tail(updates)
    /\ UNCHANGED <<pc, receive_ts, prev_time, sim_kind, positionVars, volatility,
                   scaled_order_intensity, orderVars, trades_list, updates_list>>

\* the for loop, on an OwnTrade
apply_own_trade ==
    /\ pc = "drain"
    /\ updates # <<>>
    /\ ~is_MdUpdate(Head(updates))
    /\ is_OwnTrade(Head(updates))
    /\ LET u == Head(updates)
           pos == own_trade_positions(asset_position, usd_position, u)
       IN  /\ order_intensity_time_records' = Append(order_intensity_time_records, receive_ts)
           /\ order_intensity_size_records' = Append(order_intensity_size_records, u.size)
           /\ ongoing_orders' = pop_order(ongoing_orders, u.order_id)
           /\ asset_position' = pos[1]
           /\ usd_position' = pos[2]
           /\ total_liq' = total_liq + u.size * u.price
           /\ pnl' = pos[1] * midprice + 2 * pos[2]
    /\ trades_list' = Append(trades_list, Head(updates))
    /\ updates' = Tail(updates)
    /\ UNCHANGED <<pc, receive_ts, prev_time, sim_kind, volVars, scaled_order_intensity,
                   bookVars, all_orders, cancel_calls, md_list, updates_list>>

\* the for loop, on anything else: assert False, 'Invalid type'
apply_invalid ==
    /\ pc = "drain"
    /\ updates # <<>>
    /\ ~is_MdUpdate(Head(updates))
    /\ ~is_OwnTrade(Head(updates))
    /\ pc' = "error"
    /\ UNCHANGED <<receive_ts, updates, prev_time, sim_kind, positionVars, volVars,
                   oiVars, bookVars, orderVars, listVars>>

\* the estimators as a quoting cycle at the current tick leaves them
CycleVol ==
    update_volatility(volatility_price_records, volatility_time_records,
                      best_ask, receive_ts)
CycleOi ==
    update_order_intensity(order_intensity_time_records, order_intensity_size_records,
                           scaled_order_intensity)

\* the part every quoting cycle runs: prev_time and the two estimators
cycle_estimators ==
    /\ pc = "drain"
    /\ updates = <<>>
    /\ cycle_due(receive_ts, prev_time)
    /\ prev_time' = receive_ts
    /\ volatility_time_records' = CycleVol.times
    /\ volatility_price_records' = CycleVol.prices
    /\ volatility' = CycleVol.volatility
    /\ order_intensity_time_records' = CycleOi.times
    /\ order_intensity_size_records' = CycleOi.sizes
    /\ scaled_order_intensity' = CycleOi.intensity

\* no quoting cycle is due in this tick
quote_not_due ==
    /\ pc = "drain"
    /\ updates = <<>>
    /\ ~cycle_due(receive_ts, prev_time)
    /\ pc' = "scan"
    /\ UNCHANGED <<receive_ts, updates, prev_time, sim_kind, positionVars, volVars,
                   oiVars, bookVars, orderVars, listVars>>

\* a quoting cycle that places no order: an estimate is missing
quote_withheld ==
    /\ cycle_estimators
    /\ ~gate(CycleVol.volatility, CycleOi.intensity)
    /\ pc' = "scan"
    /\ UNCHANGED <<receive_ts, updates, sim_kind, positionVars, bookVars, orderVars,
                   listVars>>

\* a quoting cycle that places the bid and the ask order
quote_place ==
    /\ cycle_estimators
    /\ gate(CycleVol.volatility, CycleOi.intensity)
    /\ LET ip == indifference_price(best_bid, best_ask, bid_quantity, ask_quantity)
           spread == my_spread(volatility', scaled_order_intensity')
           bid_order == place_order(Len(all_orders) + 1, receive_ts, order_size, "BID",
                                    bid_place(ip, spread))
           ask_order == place_order(Len(all_orders) + 2, receive_ts, order_size, "ASK",
                                    ask_place(ip, spread))
       IN  all_orders' = all_orders \o <<bid_order, ask_order>>
    \* ongoing_orders[order.order_id] = order, for the two orders just returned
    /\ LET bid_order == all_orders'[Len(all_orders) + 1]
           ask_order == all_orders'[Len(all_orders) + 2]
       IN  ongoing_orders' = ongoing_orders @@ (bid_order.order_id :> bid_order)
                                            @@ (ask_order.order_id :> ask_order)
    /\ pc' = "scan"
    /\ UNCHANGED <<receive_ts, updates, sim_kind, positionVars, bookVars, cancel_calls,
                   listVars>>

\* a quoting cycle in which np.linalg.inv raises LinAlgError
quote_solver_error ==
    /\ cycle_estimators
    /\ gate(CycleVol.volatility, CycleOi.intensity)
    /\ pc' = "error"
    /\ UNCHANGED <<receive_ts, updates, sim_kind, positionVars, bookVars, orderVars,
                   listVars>>

\* the scan for stale orders
cancel_scan ==
    /\ pc = "scan"
    /\ LET to_cancel == {ID \in DOMAIN ongoing_orders : stale(ongoing_orders[ID], receive_ts)}
           ids == Ascending(to_cancel)
       IN  /\ cancel_calls' = cancel_calls \o [i \in 1..Len(ids) |-> <<receive_ts, ids[i]>>]
           /\ ongoing_orders' =
                  [id \in DOMAIN ongoing_orders \ to_cancel |-> ongoing_orders[id]]
    /\ pc' = "tick"
    /\ UNCHANGED <<receive_ts, updates, prev_time, sim_kind, positionVars, volVars,
                   oiVars, bookVars, all_orders, listVars>>


RunIdle ==
    /\ pc = "idle"
    /\ receive_ts = 0
    /\ updates = <<>>
    /\ best_bid = -inf
    /\ best_ask = inf
    /\ bid_quantity = 1
    /\ ask_quantity = 1
    /\ prev_time = -inf
    /\ ongoing_orders = <<>>
    /\ all_orders = <<>>
    /\ cancel_calls = <<>>
    /\ trades_list = <<>>
    /\ md_list = <<>>
    /\ updates_list = <<>>
    /\ sim_kind = "quiet"
    /\ asset_position = 0
    /\ usd_position = 0
    /\ total_liq = 0
    /\ pnl = 0
    /\ midprice = 0
    /\ volatility_price_records = <<>>
    /\ volatility_time_records = <<>>
    /\ order_intensity_time_records = <<>>
    /\ order_intensity_size_records = <<>>
    /\ volatility = None
    /\ scaled_order_intensity = None

(***************************************************************************)
(* Price-adjustment solver (the block of run under the cold-start gate).   *)
(* A numpy array of floats is kept exact: [num |-> integers, den |-> d]    *)
(* with d > 0 and the integers and d without a common factor is num / d.   *)
(* K stays in hundredths, and so does micro_price_adjustment.              *)
(***************************************************************************)
\* self.K.T, each edge as the hundredth it stands for
K_hundredths == [i \in 1..k |-> K[i][1]]

\* number of states self.nm of the largest model solved
MaxStates == 2
\* for i in range(20)
Iterations == 20

Abs(x) == IF x < 0 THEN -x ELSE x
Sign(x) == IF x % 2 = 0 THEN 1 ELSE -1

RECURSIVE Gcd(_, _)
Gcd(a, b) == IF b = 0 THEN a ELSE Gcd(b, a % b)
RECURSIVE GcdVec(_, _)
GcdVec(v, d) == IF v = <<>> THEN d ELSE GcdVec(Tail(v), Gcd(d, Abs(Head(v))))
RECURSIVE GcdMat(_, _)
GcdMat(M, d) == IF M = <<>> THEN d ELSE GcdMat(Tail(M), GcdVec(Head(M), d))

\* the vector v / d and the matrix M / d (d # 0) in lowest terms
Vec(v, d) ==
    LET g == GcdVec(v, Abs(d))
        s == IF d < 0 THEN -1 ELSE 1
    IN  [num |-> [i \in 1..Len(v) |-> (s * v[i]) \div g], den |-> Abs(d) \div g]
Mat(M, d) ==
    LET g == GcdMat(M, Abs(d))
        s == IF d < 0 THEN -1 ELSE 1
    IN  [num |-> [i \in 1..Len(M) |-> [j \in 1..Len(M[i]) |-> (s * M[i][j]) \div g]],
         den |-> Abs(d) \div g]

\* np.eye(N, N), np.zeros(shape=(N, )) and the N x N matrix of zeros
eye(N) == [num |-> [i \in 1..N |-> [j \in 1..N |-> IF i = j THEN 1 ELSE 0]], den |-> 1]
zeros(N) == [num |-> [i \in 1..N |-> 0], den |-> 1]
ZeroModel(N) == [num |-> [i \in 1..N |-> [j \in 1..N |-> 0]], den |-> 1]

\* 1 - A: numpy subtracts every entry of A from the scalar 1
one_minus(A) ==
    [num |-> [i \in 1..Len(A.num) |-> [j \in 1..Len(A.num[i]) |-> A.den - A.num[i][j]]],
     den |-> A.den]

\* M without row r and column c
Minor(M, r, c) ==
    [i \in 1..(Len(M) - 1) |->
        [j \in 1..(Len(M) - 1) |->
            M[IF i < r THEN i ELSE i + 1][IF j < c THEN j ELSE j + 1]]]

RECURSIVE det(_)
\* the determinant of a square integer matrix, by its first row
det(M) ==
    IF M = <<>> THEN 1
    ELSE SumSeq([j \in 1..Len(M) |-> Sign(1 + j) * M[1][j] * det(Minor(M, 1, j))])

adjugate(M) ==
    [i \in 1..Len(M) |-> [j \in 1..Len(M) |-> Sign(i + j) * det(Minor(M, j, i))]]

\* np.linalg.inv(A) raises LinAlgError on a singular A
singular(A) == det(A.num) = 0
\* np.linalg.inv(A) of a regular A = A.num / A.den
inv(A) ==
    Mat([i \in 1..Len(A.num) |-> [j \in 1..Len(A.num) |-> A.den * adjugate(A.num)[i][j]]],
        det(A.num))

\* A @ C for two matrices, A @ v for a matrix and a vector, u + v
matmul(A, C) ==
    Mat([i \in 1..Len(A.num) |->
            [j \in 1..Len(C.num[1]) |->
                SumSeq([l \in 1..Len(C.num) |-> A.num[i][l] * C.num[l][j]])]],
        A.den * C.den)
matvec(A, v) ==
    Vec([i \in 1..Len(A.num) |->
            SumSeq([l \in 1..Len(v.num) |-> A.num[i][l] * v.num[l]])],
        A.den * v.den)
add(u, v) ==
    Vec([i \in 1..Len(u.num) |-> u.num[i] * v.den + v.num[i] * u.den], u.den * v.den)

\* the rows of R tried, over 2: all fills in the first bucket of K, all in the
\* last, and one half each in the two middle buckets
SolverRows ==
    {[j \in 1..k |-> IF j = 1 THEN 2 ELSE 0],
     [j \in 1..k |-> IF j = k THEN 2 ELSE 0],
     [j \in 1..k |-> IF j \in {7, 8} THEN 1 ELSE 0]}
\* the pairs (Q, T) tried: no transition at all, every state moving the price
\* and staying, every state staying without a price move
SolverModels(N) ==
    {<<ZeroModel(N), ZeroModel(N)>>, <<ZeroModel(N), eye(N)>>, <<eye(N), ZeroModel(N)>>}

SolInit ==
    /\ sol_pc = "start"
    /\ sol_nm \in 1..MaxStates
    /\ \E qt \in SolverModels(sol_nm) : sol_Q = qt[1] /\ sol_T = qt[2]
    /\ sol_R \in {[num |-> r, den |-> 2] : r \in [1..sol_nm -> SolverRows]}
    /\ Qi = None
    /\ G = None
    /\ B = None
    /\ product = None
    /\ micro_price_adjustment = None
    /\ sol_i = 0

SolIdle ==
    /\ sol_pc = "idle"
    /\ sol_nm = 0
    /\ sol_Q = None
    /\ sol_R = None
    /\ sol_T = None
    /\ Qi = None
    /\ G = None
    /\ B = None
    /\ product = None
    /\ micro_price_adjustment = None
    /\ sol_i = 0

\* Qi, G, B and the start values of the loop
solver_invert ==
    /\ sol_pc = "start"
    /\ ~singular(one_minus(sol_Q))
    /\ LET qi == inv(one_minus(sol_Q))
       IN  /\ Qi' = qi
           /\ G' = matvec(matmul(qi, sol_R), [num |-> K_hundredths, den |-> 1])
           /\ B' = matmul(qi, sol_T)
    /\ product' = eye(sol_nm)
    /\ micro_price_adjustment' = zeros(sol_nm)
    /\ sol_i' = 0
    /\ sol_pc' = "loop"
    /\ UNCHANGED <<sol_nm, sol_Q, sol_R, sol_T>>

\* np.linalg.inv raises LinAlgError: Singular matrix
solver_raise ==
    /\ sol_pc = "start"
    /\ singular(one_minus(sol_Q))
    /\ sol_pc' = "error"
    /\ UNCHANGED <<sol_nm, sol_Q, sol_R, sol_T, Qi, G, B, product,
                   micro_price_adjustment, sol_i>>

\* one pass of the for loop
solver_iterate ==
    /\ sol_pc = "loop"
    /\ sol_i < Iterations
    /\ micro_price_adjustment' = add(micro_price_adjustment, matvec(product, G))
    /\ product' = matmul(product, B)
    /\ sol_i' = sol_i + 1
    /\ UNCHANGED <<sol_pc, sol_nm, sol_Q, sol_R, sol_T, Qi, G, B>>

\* the for loop is over
solver_finish ==
    /\ sol_pc = "loop"
    /\ sol_i = Iterations
    /\ sol_pc' = "solved"
    /\ UNCHANGED <<sol_nm, sol_Q, sol_R, sol_T, Qi, G, B, product,
                   micro_price_adjustment, sol_i>>

(***************************************************************************)
(* Specifications.                                                         *)
(***************************************************************************)
Init == RunInit /\ EstIdle /\ BkIdle /\ SolIdle
Next ==
    \/ sim_tick /\ UNCHANGED <<estVars, bkVars, solVars>>
    \/ sim_tick_end /\ UNCHANGED <<estVars, bkVars, solVars>>
    \/ apply_md_update /\ UNCHANGED <<estVars, bkVars, solVars>>
    \/ apply_own_trade /\ UNCHANGED <<estVars, bkVars, solVars>>
    \/ apply_invalid /\ UNCHANGED <<estVars, bkVars, solVars>>
    \/ quote_not_due /\ UNCHANGED <<estVars, bkVars, solVars>>
    \/ quote_withheld /\ UNCHANGED <<estVars, bkVars, solVars>>
    \/ quote_place /\ UNCHANGED <<estVars, bkVars, solVars>>
    \/ quote_solver_error /\ UNCHANGED <<estVars, bkVars, solVars>>
    \/ cancel_scan /\ UNCHANGED <<estVars, bkVars, solVars>>
Spec == Init /\ [][Next]_vars

InitEst == EstInit /\ RunIdle /\ BkIdle /\ SolIdle
NextEst ==
    \/ cheat_activ_update /\ UNCHANGED <<runVars, bkVars, solVars>>
    \/ cheat_activ_end /\ UNCHANGED <<runVars, bkVars, solVars>>
    \/ estimate_count /\ UNCHANGED <<runVars, bkVars, solVars>>
    \/ estimate_normalize /\ UNCHANGED <<runVars, bkVars, solVars>>
SpecEst == InitEst /\ [][NextEst]_vars

InitBucket == BkInit /\ RunIdle /\ EstIdle /\ SolIdle
NextBucket ==
    \/ bk_lookup /\ UNCHANGED <<runVars, estVars, solVars>>
    \/ bk_again /\ UNCHANGED <<runVars, estVars, solVars>>
SpecBucket == InitBucket /\ [][NextBucket]_vars

InitSolver == SolInit /\ RunIdle /\ EstIdle /\ BkIdle
NextSolver ==
    \/ solver_invert /\ UNCHANGED <<runVars, estVars, bkVars>>
    \/ solver_raise /\ UNCHANGED <<runVars, estVars, bkVars>>
    \/ solver_iterate /\ UNCHANGED <<runVars, estVars, bkVars>>
    \/ solver_finish /\ UNCHANGED <<runVars, estVars, bkVars>>
SpecSolver == InitSolver /\ [][NextSolver]_vars

(***************************************************************************)
(* Properties.                                                             *)
(***************************************************************************)
\* run has finished a tick: the stale-order scan of receive_ts has run
EndOfTick == pc = "tick" /\ receive_ts > 0

OrderOf(id) == all_orders[id]
Filled(id) == \E i \in 1..Len(trades_list) : trades_list[i].order_id = id
Canceled(id) == \E i \in 1..Len(cancel_calls) : cancel_calls[i][2] = id

\* a quoting cycle runs in the next step
CycleStep == pc = "drain" /\ updates = <<>> /\ receive_ts - prev_time >= delay
\* a quoting cycle has just run in this tick
CycleRan == pc = "scan" /\ prev_time = receive_ts

\* C1: an order placed at T is canceled exactly when receive_ts >= T + delay:
\* no cancel_order call comes earlier, an unfilled order rests after every tick
\* with receive_ts < T + delay, and no order rests after a tick with
\* receive_ts >= T + delay (receive_ts = T + delay included).
C1_CanceledAtHoldTime ==
    EndOfTick =>
        \A id \in 1..Len(all_orders) :
            LET T0 == OrderOf(id).place_ts
            IN  /\ \A i \in 1..Len(cancel_calls) :
                       cancel_calls[i][2] = id => cancel_calls[i][1] >= T0 + delay
                /\ (receive_ts < T0 + delay /\ ~Filled(id)) =>
                       (id \in DOMAIN ongoing_orders /\ ~Canceled(id))
                /\ receive_ts >= T0 + delay => id \notin DOMAIN ongoing_orders

\* C2: the quoting step places orders only when both estimates are set after
\* the estimators ran; with an estimate unset it leaves ongoing_orders and
\* all_orders as they were and run continues with the stale-order scan.
C2_ColdStartGating ==
    [][(pc = "drain" /\ updates = <<>>) =>
          /\ all_orders' # all_orders =>
                 (volatility' # None /\ scaled_order_intensity' # None)
          /\ (volatility' = None \/ scaled_order_intensity' = None) =>
                 /\ all_orders' = all_orders
                 /\ ongoing_orders' = ongoing_orders
                 /\ cancel_calls' = cancel_calls
                 /\ pc' = "scan"]_vars

C2_Witness ==
    /\ CycleRan
    /\ scaled_order_intensity = None
    /\ Len(order_intensity_time_records) = order_intensity_min_samples
    /\ all_orders = <<>>
    /\ ongoing_orders = <<>>

\* C3: with a simulator that emits only bid 100 / ask 102 updates without
\* trades, midprice is 101 from the first update on, the order intensity stays
\* unset, no order is placed or canceled, and run reaches no error.
C3_QuietMarketIdles ==
    sim_kind = "quiet" =>
        /\ md_list # <<>> => midprice = 2 * 101
        /\ scaled_order_intensity = None
        /\ all_orders = <<>>
        /\ ongoing_orders = <<>>
        /\ cancel_calls = <<>>
        /\ pc # "error"

C3_Witness ==
    /\ sim_kind = "quiet"
    /\ CycleRan
    /\ Len(md_list) >= 3
    /\ midprice = 2 * 101
    /\ volatility = <<0, 4 * volatility_horizon * volatility_horizon * avg_volatility>>

\* C4: a call of update_order_intensity with exactly order_intensity_min_samples
\* records and no estimate yet leaves the estimate unset and the deques as they
\* were; a call with one record more sets the estimate.
C4_IntensityThreshold ==
    [][CycleStep =>
          /\ (/\ Len(order_intensity_time_records) = order_intensity_min_samples
              /\ scaled_order_intensity = None) =>
                 /\ scaled_order_intensity' = None
                 /\ order_intensity_time_records' = order_intensity_time_records
                 /\ order_intensity_size_records' = order_intensity_size_records
          /\ Len(order_intensity_time_records) = order_intensity_min_samples + 1 =>
                 scaled_order_intensity' # None]_vars

C4_Witness ==
    /\ CycleRan
    /\ Len(order_intensity_time_records) = order_intensity_min_samples
    /\ Len(order_intensity_size_records) = order_intensity_min_samples
    /\ scaled_order_intensity = None
    /\ Len(trades_list) = order_intensity_min_samples

\* C5: an OwnTrade of size s at price p moves (asset_position, usd_position) by
\* (-s, +s*p) on side ASK and by (+s, -s*p) otherwise, adds s*p to total_liq and
\* sets pnl to asset_position * midprice + usd_position of the new positions,
\* whether or not its order is in ongoing_orders (pnl and midprice are doubled).
C5_OwnTradeAccounting ==
    [][(pc = "drain" /\ updates # <<>> /\ Head(updates).kind = "OwnTrade") =>
          LET u == Head(updates)
              s == u.size
              p == u.price
          IN  /\ u.side = "ASK" =>
                     /\ asset_position' = asset_position - s
                     /\ usd_position' = usd_position + s * p
              /\ u.side # "ASK" =>
                     /\ asset_position' = asset_position + s
                     /\ usd_position' = usd_position - s * p
              /\ total_liq' = total_liq + s * p
              /\ midprice' = midprice
              /\ pnl' = asset_position' * midprice + 2 * usd_position'
              /\ (/\ asset_position = 0
                  /\ usd_position = 0
                  /\ u.side = "ASK" /\ s = 1 /\ p = 102) =>
                     /\ asset_position' = -1
                     /\ usd_position' = 102
                     /\ pnl' = 2 * 102 - midprice]_vars

C5_Witness ==
    /\ Len(trades_list) = 1
    /\ trades_list[1] = OwnTrade(2, "ASK", 1, 102)
    /\ all_orders = <<>>
    /\ midprice = 2 * 101
    /\ asset_position = -1
    /\ usd_position = 102
    /\ total_liq = 102
    /\ pnl = 2 * 102 - 2 * 101

\* the sum of the counts of a row of a normalized matrix
RowSum(row) == SumFun(row.num, DOMAIN row.num)
\* the sum of row X of a count matrix
CountRowSum(success, X) == RowSum([num |-> SuccessRow(success, X)])

\* C6 as stated: for every observed state X the counts of row X of Q_success,
\* of T_success and of R_success each add up to the row total, so that every
\* row of Q, of T and of R sums to 1.
C6_EveryRowSumsToOne ==
    est_pc = "constructed" =>
        \A X \in DOMAIN counters.Q_total :
            /\ CountRowSum(counters.Q_success, X) = counters.Q_total[X]
            /\ CountRowSum(counters.T_success, X) = counters.T_total[X]
            /\ CountRowSum(counters.R_success, X) = counters.R_total[X]
            /\ RowSum(Q[X]) = Q[X].den
            /\ RowSum(T[X]) = T[X].den
            /\ RowSum(R[X]) = R[X].den

\* C6 amended: every row of R sums to 1, and a row of Q and the same row of T
\* sum to 1 together.  For every state X the counts of row X of Q_success and
\* of T_success add up to the one row total, those of R_success to R_total[X];
\* once a consecutive pair was observed every gap-filled row of Q, T and R is
\* defined, with row(Q) + row(T) = 1 and row(R) = 1.
C6_RowsOfQPlusTSumToOne ==
    est_pc = "constructed" =>
        /\ \A X \in 0..(nm - 1) :
               /\ CountRowSum(counters.Q_success, X) + CountRowSum(counters.T_success, X)
                      = At(counters.Q_total, X)
               /\ At(counters.T_total, X) = At(counters.Q_total, X)
               /\ CountRowSum(counters.R_success, X) = At(counters.R_total, X)
        /\ NumPairs(cheat_logs) >= 1 =>
               \A X \in 0..(nm - 1) :
                   /\ ~Q[X].nan /\ ~T[X].nan /\ ~R[X].nan
                   /\ Q[X].den > 0
                   /\ T[X].den = Q[X].den
                   /\ RowSum(Q[X]) + RowSum(T[X]) = Q[X].den
                   /\ R[X].den > 0
                   /\ RowSum(R[X]) = R[X].den

C6_Witness ==
    /\ est_pc = "constructed"
    /\ \E X \in DOMAIN counters.Q_total :
           /\ RowSum(Q[X]) > 0
           /\ RowSum(T[X]) > 0
           /\ RowSum(Q[X]) + RowSum(T[X]) = Q[X].den
    /\ \E X \in 0..(nm - 1) : X \notin DOMAIN counters.Q_total /\ ~Q[X].nan

\* the joint state of observation t of the replay
StateAt(t) == get_X_i(float64(cheat_logs[t].I), float64(cheat_logs[t].S))
\* the counted pairs going from X to Y, without and with a price move
StayPairs(X, Y) ==
    {t \in 1..est_i : StateAt(t) = X /\ StateAt(t + 1) = Y
                      /\ cheat_logs[t + 1].M = cheat_logs[t].M}
MovePairs(X, Y) ==
    {t \in 1..est_i : StateAt(t) = X /\ StateAt(t + 1) = Y
                      /\ cheat_logs[t + 1].M # cheat_logs[t].M}
PairKeys ==
    DOMAIN counters.Q_success \cup DOMAIN counters.T_success
        \cup {<<StateAt(t), StateAt(t + 1)>> : t \in 1..NumPairs(cheat_logs)}
PriceNeverMoves == \A t \in 1..Len(cheat_logs) : cheat_logs[t].M = cheat_logs[1].M

\* C7: every counted pair raises exactly one of Q_success[X][X'] (no price
\* move) and T_success[X][X'] (price move).  When M never changes T_success is
\* 0 everywhere, Q_success[X][X'] is the number of pairs from X to X', every
\* entry of T is 0 (every row of T is defined once a pair was observed) and
\* Q[X][X'] is that number over the number of pairs leaving X.
C7_PairsCountedOnce ==
    est_pc \in {"pairs", "constructed"} =>
        /\ \A key \in PairKeys :
               /\ At(counters.Q_success, key) = Cardinality(StayPairs(key[1], key[2]))
               /\ At(counters.T_success, key) = Cardinality(MovePairs(key[1], key[2]))
        /\ PriceNeverMoves =>
               /\ counters.T_success = <<>>
               /\ est_pc = "constructed" =>
                      /\ \A X \in 0..(nm - 1) : ~T[X].nan => T[X].num = <<>>
                      /\ NumPairs(cheat_logs) >= 1 =>
                             \A X \in 0..(nm - 1) : ~T[X].nan /\ T[X].den > 0
                      /\ \A X \in DOMAIN counters.Q_total :
                             /\ Q[X].den =
                                    Cardinality({t \in 1..NumPairs(cheat_logs) : StateAt(t) = X})
                             /\ \A Y \in 0..(nm - 1) :
                                    At(Q[X].num, Y) = Cardinality(StayPairs(X, Y))

C7_Witness ==
    /\ est_pc = "constructed"
    /\ PriceNeverMoves
    /\ NumPairs(cheat_logs) = 2
    /\ counters.T_success = <<>>
    /\ \E key \in DOMAIN counters.Q_success : counters.Q_success[key] = 2
    /\ \A X \in 0..(nm - 1) : ~T[X].nan /\ T[X].num = <<>>

\* C8: a replay without a consecutive pair of observations never yields a
\* constructed Strategy: a constructed Strategy has a defined row in Q, T and R.
C8_NoUndefinedModelConstructed ==
    est_pc = "constructed" =>
        /\ \E X \in 0..(nm - 1) : ~Q[X].nan
        /\ \E X \in 0..(nm - 1) : ~T[X].nan
        /\ \E X \in 0..(nm - 1) : ~R[X].nan

\* C9: on an update that is neither an MdUpdate nor an OwnTrade run halts at
\* once: the step leaves every variable but pc as it is (the rest of the tick's
\* updates stays unapplied), and nothing follows a halt: no quoting step, no
\* scan, no place_order or cancel_order call, no return.
C9_InvalidUpdateHalts ==
    [][/\ pc # "error"
       /\ (/\ pc = "drain"
           /\ updates # <<>>
           /\ Head(updates).kind \notin {"MdUpdate", "OwnTrade"}) =>
              /\ pc' = "error"
              /\ UNCHANGED <<receive_ts, updates, prev_time, sim_kind, positionVars,
                             volVars, oiVars, bookVars, orderVars, listVars>>]_vars

C9_Witness ==
    /\ pc = "error"
    /\ Len(updates) = 2
    /\ updates[1].kind = "Other"
    /\ updates[2].kind = "OwnTrade"
    /\ all_orders # <<>>
    /\ trades_list = <<>>

\* C10: the bucket lookup returns an index in [0, bucket_count) for a value
\* below, between, on or above the edges, is monotone in the value and returns
\* the same index when called again; get_X_i lies in [0, n * m).
C10_BucketIndex ==
    /\ bk_pc \in {"looked", "joint"} =>
           /\ bk_iv \in 0..(Len(EdgesOf(bk_edges)) - 1)
           /\ bk_iw \in 0..(Len(EdgesOf(bk_edges)) - 1)
           /\ bk_v <= bk_w => bk_iv <= bk_iw
    /\ bk_pc = "joint" =>
           /\ bk_iv2 = bk_iv
           /\ bk_X \in 0..(n * m - 1)

C10_Witness ==
    /\ bk_pc = "joint"
    /\ float_lt(float64(bk_v), EdgesOf(bk_edges)[1])
    /\ bk_iv = 0
    /\ float_lt(EdgesOf(bk_edges)[Len(EdgesOf(bk_edges))], float64(bk_w))
    /\ bk_iw = Len(EdgesOf(bk_edges)) - 1
    /\ bk_X = 0 * m + (m - 1)

\* R @ K, the adjustment of a model without transitions
RK == matvec(sol_R, [num |-> K_hundredths, den |-> 1])

\* C11: with Q and T zero the solver step completes for every number of states
\* and leaves micro_price_adjustment = R @ K.
C11_ZeroModelYieldsRK ==
    (sol_pc # "idle" /\ sol_Q = ZeroModel(sol_nm) /\ sol_T = ZeroModel(sol_nm)) =>
        /\ sol_pc # "error"
        /\ sol_pc = "solved" => micro_price_adjustment = RK

\* the updates of one type in a list, in the order of the list
OfKind(list, kind) == SelectSeq(list, LAMBDA u : u.kind = kind)

\* C12: when tick returns the end sentinel run returns in that step, with no
\* place_order or cancel_order call, and nothing follows the return.  Every
\* batch received is appended to updates_list as it arrives and nothing else
\* changes updates_list; md_list and trades_list are the MdUpdates and the
\* OwnTrades of updates_list in the same order (the updates of the current tick
\* not yet applied set aside); all_orders holds the placed orders in placement
\* order, and every order of ongoing_orders is one of them.
C12_SentinelReturnsLists ==
    /\ [](/\ md_list \o OfKind(updates, "MdUpdate") = OfKind(updates_list, "MdUpdate")
          /\ trades_list \o OfKind(updates, "OwnTrade") = OfKind(updates_list, "OwnTrade")
          /\ pc = "done" => updates = <<>>
          /\ \A i \in 1..Len(all_orders) :
                 /\ all_orders[i].order_id = i
                 /\ \A j \in i..Len(all_orders) :
                        all_orders[i].place_ts <= all_orders[j].place_ts
          /\ \A id \in DOMAIN ongoing_orders :
                 id \in 1..Len(all_orders) /\ ongoing_orders[id] = all_orders[id])
    /\ [][/\ pc # "done"
          /\ pc' = "done" =>
                 /\ pc = "tick"
                 /\ UNCHANGED <<receive_ts, updates, prev_time, sim_kind, positionVars,
                                volVars, oiVars, bookVars, orderVars, listVars>>
          /\ (pc = "tick" /\ pc' # "done") =>
                 /\ updates_list' = updates_list \o updates'
                 /\ UNCHANGED <<orderVars, trades_list, md_list>>
          /\ pc # "tick" => updates_list' = updates_list
          /\ \E placed \in {0, 2} :
                 /\ Len(all_orders') = Len(all_orders) + placed
                 /\ SubSeq(all_orders', 1, Len(all_orders)) = all_orders]_vars

C12_Witness ==
    /\ pc = "done"
    /\ Len(updates_list) = 4
    /\ Len(md_list) = 3
    /\ Len(trades_list) = 1
    /\ updates_list[3].kind = "OwnTrade"
    /\ Len(all_orders) = 2

\* the best asks update_volatility can have sampled, doubled as the records are
SampledAsks == {2 * inf} \cup {2 * md_list[i].ask : i \in 1..Len(md_list)}

\* C13: the volatility deques grow only by a record sampled after more than
\* volatility_record_cooldown since the last record: consecutive retained
\* timestamps differ by more than the cooldown, every retained price is a best
\* ask, and after a quoting cycle computed the volatility the deques hold at
\* most volatility_horizon records.
C13_VolatilitySampling ==
    /\ Len(volatility_time_records) = Len(volatility_price_records)
    /\ \A i \in 1..(Len(volatility_time_records) - 1) :
           volatility_time_records[i + 1] - volatility_time_records[i]
               > volatility_record_cooldown
    /\ \A i \in 1..Len(volatility_price_records) :
           volatility_price_records[i] \in SampledAsks
    /\ CycleRan => Len(volatility_time_records) <= volatility_horizon

\* list without its first c elements
DropFirst(list, c) == SubSeq(list, c + 1, Len(list))
\* the number of trade records appended to the order-intensity deques so far
TradeRecords ==
    Len(trades_list) + Cardinality({i \in 1..Len(md_list) : md_list[i].trade # <<>>})

\* C14: a call of update_order_intensity removes records from the front of the
\* two deques only, the same number from both, and none unless it holds more
\* than order_intensity_min_samples records; when it holds more it sets the
\* estimate, keeps at least one record, the kept records span at most time_oi,
\* and the last record removed was more than time_oi older than the newest.
C14_IntensityWindow ==
    [][CycleStep =>
          LET evicted == Len(order_intensity_time_records)
                             - Len(order_intensity_time_records')
              newest == order_intensity_time_records[Len(order_intensity_time_records)]
          IN  /\ evicted >= 0
              /\ order_intensity_time_records'
                     = DropFirst(order_intensity_time_records, evicted)
              /\ order_intensity_size_records'
                     = DropFirst(order_intensity_size_records, evicted)
              /\ evicted > 0 =>
                     /\ Len(order_intensity_time_records) > order_intensity_min_samples
                     /\ newest - order_intensity_time_records[evicted] > time_oi
              /\ Len(order_intensity_time_records) > order_intensity_min_samples =>
                     /\ scaled_order_intensity' # None
                     /\ Len(order_intensity_time_records') >= 1
                     /\ newest - order_intensity_time_records'[1] <= time_oi
                     /\ order_intensity_time_records'[Len(order_intensity_time_records')]
                            = newest]_vars

C14_Witness ==
    /\ CycleRan
    /\ TradeRecords = 3
    /\ order_intensity_time_records = <<2, 4>>
    /\ Len(order_intensity_size_records) = 2
    /\ scaled_order_intensity # None

\* C15: a step that places orders places exactly two, at the end of all_orders:
\* a BID at indifference_price - my_spread / 2 and then an ASK at
\* indifference_price + my_spread / 2, of the same size, both at receive_ts and
\* both priced from the estimates the cycle just computed; both are put into
\* ongoing_orders under their own ids and nothing else in the map changes.
\* all_orders therefore has even length and alternates BID, ASK.
C15_PairedPlacement ==
    /\ [](/\ Len(all_orders) % 2 = 0
          /\ \A i \in 1..Len(all_orders) :
                 all_orders[i].side = (IF i % 2 = 1 THEN "BID" ELSE "ASK"))
    /\ [][all_orders' # all_orders =>
              /\ Len(all_orders') = Len(all_orders) + 2
              /\ LET bid == all_orders'[Len(all_orders) + 1]
                     ask == all_orders'[Len(all_orders) + 2]
                     ip == indifference_price(best_bid, best_ask, bid_quantity, ask_quantity)
                     spread == my_spread(volatility', scaled_order_intensity')
                 IN  /\ all_orders' = all_orders \o <<bid, ask>>
                     /\ bid.side = "BID"
                     /\ ask.side = "ASK"
                     /\ bid.place_ts = receive_ts
                     /\ ask.place_ts = receive_ts
                     /\ bid.size = order_size
                     /\ ask.size = bid.size
                     /\ bid.price = [indifference_price |-> ip, half_spreads |-> -1,
                                     my_spread |-> spread]
                     /\ ask.price = [indifference_price |-> ip, half_spreads |-> 1,
                                     my_spread |-> spread]
                     /\ bid.order_id # ask.order_id
                     /\ DOMAIN ongoing_orders'
                            = DOMAIN ongoing_orders \cup {bid.order_id, ask.order_id}
                     /\ ongoing_orders'[bid.order_id] = bid
                     /\ ongoing_orders'[ask.order_id] = ask
                     /\ \A id \in DOMAIN ongoing_orders \ {bid.order_id, ask.order_id} :
                            ongoing_orders'[id] = ongoing_orders[id]]_vars

C15_Witness ==
    /\ CycleRan
    /\ Len(all_orders) = 4
    /\ all_orders[3].place_ts = receive_ts
    /\ all_orders[4].place_ts = receive_ts
    /\ all_orders[3].price.half_spreads = -1
    /\ all_orders[4].price.half_spreads = 1
    /\ all_orders[3].price.indifference_price # all_orders[1].price.indifference_price
    /\ {3, 4} \subseteq DOMAIN ongoing_orders

\* C16: a quoting cycle runs in a tick exactly when receive_ts - prev_time >=
\* delay, and always in the first tick.  A cycle sets prev_time to receive_ts and
\* runs the estimators whether or not it places orders; a tick without a cycle
\* leaves prev_time, the estimators and the orders alone, and no other step
\* changes prev_time.  Orders are placed in a cycle only, so two pairs of
\* all_orders are at least delay apart and a tick places at most one pair.
C16_QuotingCadence ==
    /\ [](\A i \in 1..Len(all_orders) :
              /\ all_orders[i].place_ts <= prev_time
              /\ \A j \in (i + 1)..Len(all_orders) :
                     \/ all_orders[j].place_ts - all_orders[i].place_ts >= delay
                     \/ (j = i + 1 /\ i % 2 = 1
                           /\ all_orders[j].place_ts = all_orders[i].place_ts))
    /\ [][/\ (pc = "drain" /\ updates = <<>> /\ receive_ts - prev_time >= delay) =>
                 /\ prev_time' = receive_ts
                 /\ volatility' = CycleVol.volatility
                 /\ scaled_order_intensity' = CycleOi.intensity
          /\ (pc = "drain" /\ updates = <<>> /\ receive_ts - prev_time < delay) =>
                 /\ pc' = "scan"
                 /\ UNCHANGED <<prev_time, volVars, oiVars, orderVars>>
          /\ (pc = "drain" /\ updates = <<>> /\ prev_time = -inf) =>
                 prev_time' = receive_ts
          /\ ~(pc = "drain" /\ updates = <<>>) =>
                 UNCHANGED <<prev_time, all_orders, volatility, scaled_order_intensity>>]_vars

C16_Witness ==
    /\ CycleRan
    /\ Len(all_orders) = 4
    /\ all_orders[3].place_ts = receive_ts
    /\ all_orders[3].place_ts - all_orders[1].place_ts = delay
    /\ prev_time = receive_ts

\* C17: an order id enters ongoing_orders only in the step that places it and
\* leaves it only in the step that applies an OwnTrade with that order_id or in
\* the scan that calls cancel_order for it; after either step the id is not in
\* the map, and since only fresh ids enter it never returns.  cancel_order is
\* called in the scan only, for ids that are in the map and were never canceled
\* before, hence at most once per id and never after the order's OwnTrade was
\* applied to the map.  An OwnTrade whose order_id is not in the map is applied
\* like any other, leaves the map as it is, and run goes on.
C17_OrderLifecycle ==
    /\ [](\A id \in 1..Len(all_orders) :
              /\ id \in DOMAIN ongoing_orders => ~Canceled(id)
              /\ id \notin DOMAIN ongoing_orders => (Filled(id) \/ Canceled(id)))
    /\ [][LET own == pc = "drain" /\ updates # <<>> /\ Head(updates).kind = "OwnTrade"
              canceled == {cancel_calls'[i][2] :
                              i \in (Len(cancel_calls) + 1)..Len(cancel_calls')}
          IN  /\ Len(cancel_calls') = Len(cancel_calls) + Cardinality(canceled)
              /\ SubSeq(cancel_calls', 1, Len(cancel_calls)) = cancel_calls
              /\ \A id \in DOMAIN ongoing_orders \ DOMAIN ongoing_orders' :
                     \/ own /\ Head(updates).order_id = id
                     \/ pc = "scan" /\ id \in canceled
              /\ \A id \in DOMAIN ongoing_orders' \ DOMAIN ongoing_orders :
                     /\ id \notin 1..Len(all_orders)
                     /\ id \in 1..Len(all_orders')
              /\ \A id \in canceled :
                     /\ pc = "scan"
                     /\ id \in DOMAIN ongoing_orders
                     /\ id \notin DOMAIN ongoing_orders'
                     /\ ~Canceled(id)
              /\ own =>
                     /\ Head(updates).order_id \notin DOMAIN ongoing_orders'
                     /\ Head(updates).order_id \notin DOMAIN ongoing_orders =>
                            ongoing_orders' = ongoing_orders
                     /\ trades_list' = Append(trades_list, Head(updates))
                     /\ cancel_calls' = cancel_calls
                     /\ pc' = "drain"]_vars

\* order 1 left the map by its OwnTrade (it was not canceled with order 2 of
\* the same pair), order 2 by the scan
C17_Witness ==
    /\ EndOfTick
    /\ Len(all_orders) >= 2
    /\ Filled(1)
    /\ ~Canceled(1)
    /\ ~Filled(2)
    /\ Canceled(2)
    /\ DOMAIN ongoing_orders \cap {1, 2} = {}

\* C18: an estimate of the order intensity is never the result of a division
\* by zero: its denominator scaled_time is not 0, and after a quoting cycle that
\* computed it the newest retained record is later than the oldest.
C18_PositiveWindow ==
    /\ scaled_order_intensity # None => scaled_order_intensity[2] # 0
    /\ (CycleRan /\ Len(order_intensity_time_records) > order_intensity_min_samples) =>
           order_intensity_time_records[Len(order_intensity_time_records)]
               > order_intensity_time_records[1]

\* the placement times of the orders in ongoing_orders
RestingTimes == {ongoing_orders[id].place_ts : id \in DOMAIN ongoing_orders}

\* C19: at the end of every tick every order of ongoing_orders has place_ts >=
\* receive_ts - delay, and ongoing_orders holds at most 4 orders: at most two
\* orders of one placement time, at most two placement times, and with two the
\* older one is receive_ts - delay and the newer one receive_ts.
C19_RestingOrdersBounded ==
    EndOfTick =>
        /\ \A id \in DOMAIN ongoing_orders :
               /\ ongoing_orders[id].place_ts >= receive_ts - delay
               /\ ongoing_orders[id].place_ts <= receive_ts
        /\ Cardinality(DOMAIN ongoing_orders) <= 4
        /\ \A t \in RestingTimes :
               Cardinality({id \in DOMAIN ongoing_orders :
                               ongoing_orders[id].place_ts = t}) <= 2
        /\ Cardinality(RestingTimes) <= 2
        /\ Cardinality(RestingTimes) = 2 => RestingTimes = {receive_ts - delay, receive_ts}

C19_Witness ==
    /\ EndOfTick
    /\ Cardinality(DOMAIN ongoing_orders) = 4
    /\ RestingTimes = {receive_ts - delay, receive_ts}
    /\ cancel_calls = <<>>

====
